---- MODULE Spec2Model ----
(***************************************************************************)
(* Order / cart lifecycle of the RegionHub marketplace backend             *)
(* (src/index.js).  The state is the content of the Order, Cart and Stock  *)
(* collections; every HTTP handler that writes to them is one action.      *)
(* resp is the last response: the handler and its HTTP status code.        *)
(***************************************************************************)
EXTENDS Integers, FiniteSets, Sequences, TLC

(* ---------------- bounds of the model ---------------- *)
MaxOrders == 2
MaxCarts == 2
MaxStocks == 1
MaxQty == 2
MaxComplaints == 2

(* ---------------- fixed catalog data ---------------- *)
Users == {"u1", "u2"}
Products == {"P", "Q"}
NoProduct == "none"
DeliveryPersons == {"d1"}
NoDeliveryPerson == "d0"
Null == "null"

price == [p \in Products |-> IF p = "P" THEN 100 ELSE 50]
vendor_id == [p \in Products |-> IF p = "P" THEN "v1" ELSE "v2"]
Vendors == {"v1", "v2"}
(* the vendor documents at the start: vendor_lat and vendor_lon in degrees *)
VendorDocs ==
  [v \in Vendors |-> IF v = "v1" THEN [vendor_lat |-> 30, vendor_lon |-> 60]
                                ELSE [vendor_lat |-> 60, vendor_lon |-> 30]]

OrderIds == 1..MaxOrders
CartIds == 1..MaxCarts
StockIds == 1..MaxStocks

(* Inputs the handlers are called with. *)
QtyInputs == {-1, 0, 1, 2}
StockQtyInputs == {1}
LifecycleQtyInputs == {1}
(* the user whose cart the runs fill; the other one only calls on orders *)
CartUsers == {"u1"}
LifecycleProducts == {"P"}
(* ledger quantity of product P at the start of the payment race *)
RaceStocks == {4, 5, 6}
Slots == {1, 2}

(* OrderSchema.status enum *)
OrderStatus == {"0", "1", "2", "3", "4", "5"}
(* the codes that count as sold in the stock-left aggregation *)
SoldStatus == {"2", "3", "4", "5"}

(* ---------------- JavaScript arithmetic on possibly missing values ------- *)
JsNum(n) == [t |-> "number", v |-> n]
Undefined == [t |-> "undefined", v |-> 0]
NaN == [t |-> "NaN", v |-> 0]
IsNum(a) == a.t = "number"
JsMul(a, b) == IF IsNum(a) /\ IsNum(b) THEN JsNum(a.v * b.v) ELSE NaN
JsSub(a, b) == IF IsNum(a) /\ IsNum(b) THEN JsNum(a.v - b.v) ELSE NaN
JsLt(a, b) == IF IsNum(a) /\ IsNum(b) THEN a.v < b.v ELSE FALSE
(* Mongoose casts a Number path before saving; NaN is a cast error. *)
CastNumberOk(a) == IsNum(a)

VARIABLES orders, carts, stocks, nextOrder, nextCart, nextStock, resp, reqs,
          complaints, vendors

vars == <<orders, carts, stocks, nextOrder, nextCart, nextStock, resp, reqs,
          complaints, vendors>>
db == <<orders, carts, stocks, nextOrder, nextCart, nextStock, complaints, vendors>>

(* ---------------- collection helpers ---------------- *)
Put(f, k, v) == [x \in (DOMAIN f) \cup {k} |-> IF x = k THEN v ELSE f[x]]
Del(f, k) == [x \in (DOMAIN f) \ {k} |-> f[x]]

RECURSIVE SumOver(_, _, _)
SumOver(f, S, field) ==
  IF S = {} THEN 0
  ELSE LET k == CHOOSE x \in S : TRUE
       IN  f[k][field] + SumOver(f, S \ {k}, field)

CartsOf(cs, o) == {c \in DOMAIN cs : cs[c].order_id = o}
LineTotal(cs, o) == SumOver(cs, CartsOf(cs, o), "cart_price")

(* Paths that the schemas do not declare read as undefined on a document. *)
CartProductPrice(c) == Undefined
ProductStockField(p) == Undefined

(* the last response: which handler answered, and its HTTP status code *)
Response(op, code) == [op |-> op, code |-> code]

Init ==
  /\ orders = << >>
  /\ carts = << >>
  /\ stocks = << >>
  /\ nextOrder = 1
  /\ nextCart = 1
  /\ nextStock = 1
  /\ resp = Response("none", 0)
  /\ reqs = << >>
  /\ complaints = << >>
  /\ vendors = VendorDocs

(* ---------------- POST /cart/insert ---------------- *)
NewOrder(u, p) ==
  [user_id |-> u, vendor_id |-> vendor_id[p], status |-> "1",
   order_amount |-> 0, delivery_boy_id |-> Null]

NewCart(u, p, q, o) ==
  [user_id |-> u, product_id |-> p, qty |-> q, cart_price |-> price[p] * q,
   order_id |-> o, status |-> "processing"]

(* Order.findOne({ user_id, status: "1" }) *)
OpenOrders(os, u) == {o \in DOMAIN os : os[o].user_id = u /\ os[o].status = "1"}

(* cartSchema.qty: min 1 *)
CartValid(qty, cart_price) == CastNumberOk(cart_price) /\ CastNumberOk(qty) /\ qty.v >= 1

(* the order total left as it was *)
AddToOrderStale(os, o, cart_price) == os

AddToOrder(os, o, cart_price) ==
  [os EXCEPT ![o].order_amount = os[o].order_amount + cart_price]

(* the lookup finds no line item *)
ExistingCartItemsNone(cs, u, p, o) == {}

(* Cart.findOne({ user_id, product_id, order_id: order._id }) *)
ExistingCartItems(cs, u, p, o) ==
  {c \in DOMAIN cs : /\ cs[c].user_id = u
                     /\ cs[c].product_id = p
                     /\ cs[c].order_id = o}

AddItem(u, p, q) ==
  /\ UNCHANGED <<stocks, nextStock, reqs, complaints, vendors>>
  /\ IF q = 0
     THEN /\ resp' = Response("addItem", 400)
          /\ UNCHANGED <<orders, carts, nextOrder, nextCart>>
     ELSE IF p \notin Products
     THEN /\ resp' = Response("addItem", 404)
          /\ UNCHANGED <<orders, carts, nextOrder, nextCart>>
     ELSE
       LET cart_price == price[p] * q
           found == OpenOrders(orders, u)
       IN
       /\ found = {} => nextOrder <= MaxOrders
       /\ \E o \in (IF found = {} THEN {nextOrder} ELSE found) :
            LET orders1 == IF found = {} THEN Put(orders, o, NewOrder(u, p)) ELSE orders
                existing == ExistingCartItems(carts, u, p, o)
            IN
            /\ nextOrder' = IF found = {} THEN nextOrder + 1 ELSE nextOrder
            /\ IF existing # {}
               THEN \E c \in existing :
                      LET upd == [carts[c] EXCEPT !.qty = @ + q,
                                                  !.cart_price = @ + cart_price]
                      IN
                      /\ upd.qty <= MaxQty
                      /\ UNCHANGED nextCart
                      /\ IF CartValid(JsNum(upd.qty), JsNum(upd.cart_price))
                         THEN /\ carts' = [carts EXCEPT ![c] = upd]
                              /\ orders' = AddToOrder(orders1, o, cart_price)
                              /\ resp' = Response("addItem", 200)
                         ELSE /\ carts' = carts
                              /\ orders' = orders1
                              /\ resp' = Response("addItem", 500)
               ELSE LET item == NewCart(u, p, q, o)
                    IN
                    IF CartValid(JsNum(item.qty), JsNum(item.cart_price))
                    THEN /\ nextCart <= MaxCarts
                         /\ carts' = Put(carts, nextCart, item)
                         /\ nextCart' = nextCart + 1
                         /\ orders' = AddToOrder(orders1, o, cart_price)
                         /\ resp' = Response("addItem", 201)
                    ELSE /\ carts' = carts
                         /\ nextCart' = nextCart
                         /\ orders' = orders1
                         /\ resp' = Response("addItem", 500)

(* ---------------- DELETE /cart/:id ---------------- *)
(* the order deleted only below zero *)
OrderEmptiedStrict(order_amount) == order_amount < 0

(* if (order.order_amount <= 0) *)
OrderEmptied(order_amount) == order_amount <= 0

RemoveItem(c) ==
  /\ UNCHANGED <<stocks, nextOrder, nextCart, nextStock, reqs, complaints, vendors>>
  /\ IF c \notin DOMAIN carts
     THEN /\ resp' = Response("removeItem", 404)
          /\ UNCHANGED <<orders, carts>>
     ELSE
       LET order_id == carts[c].order_id
           cart_price == carts[c].cart_price
       IN
       /\ carts' = Del(carts, c)
       /\ resp' = Response("removeItem", 200)
       /\ IF order_id \in DOMAIN orders
          THEN IF OrderEmptied(orders[order_id].order_amount - cart_price)
               THEN orders' = Del(orders, order_id)
               ELSE orders' = [orders EXCEPT ![order_id].order_amount = @ - cart_price]
          ELSE orders' = orders

(* ---------------- PUT /cart/update ---------------- *)
(* cartItem.save() validates before writing: a rejected save persists       *)
(* neither the new quantity nor the new line total, and the handler         *)
(* answers 500.                                                             *)
UpdateQty(c, q) ==
  /\ UNCHANGED <<orders, stocks, nextOrder, nextCart, nextStock, reqs, complaints, vendors>>
  /\ IF c \notin DOMAIN carts
     THEN /\ resp' = Response("updateQty", 404)
          /\ UNCHANGED carts
     ELSE
       LET qty == JsNum(q)
           cart_price == JsMul(CartProductPrice(c), qty)
       IN
       IF CartValid(qty, cart_price)
       THEN /\ carts' = [carts EXCEPT ![c].qty = qty.v, ![c].cart_price = cart_price.v]
            /\ resp' = Response("updateQty", 200)
       ELSE /\ carts' = carts
            /\ resp' = Response("updateQty", 500)

(* ---------------- POST /order/confirm ---------------- *)
PendingOrders(os, u) == {o \in DOMAIN os : os[o].user_id = u /\ os[o].status = "0"}

Confirm(u) ==
  /\ UNCHANGED <<stocks, nextOrder, nextCart, nextStock, reqs, complaints, vendors>>
  /\ IF PendingOrders(orders, u) = {}
     THEN /\ resp' = Response("confirm", 400)
          /\ UNCHANGED <<orders, carts>>
     ELSE \E o \in PendingOrders(orders, u) :
            /\ orders' = [orders EXCEPT ![o].status = "1"]
            /\ carts' = [c \in DOMAIN carts |->
                           IF carts[c].order_id = o
                           THEN [carts[c] EXCEPT !.status = "shipped"]
                           ELSE carts[c]]
            /\ resp' = Response("confirm", 200)

(* ---------------- stock ledger ---------------- *)
(* POST /update-stock/:productId : appends one ledger entry *)
UpdateStock(p, q) ==
  /\ nextStock <= MaxStocks
  /\ stocks' = Put(stocks, nextStock, [product_id |-> p, stock_quantity |-> q])
  /\ nextStock' = nextStock + 1
  /\ resp' = Response("updateStock", 200)
  /\ UNCHANGED <<orders, carts, nextOrder, nextCart, reqs, complaints, vendors>>

(* GET /vendor/:vendorId/product/:productId/stock-left : totalStock - soldQty *)
TotalStock(st, p) ==
  SumOver(st, {k \in DOMAIN st : st[k].product_id = p}, "stock_quantity")

(* every line item of the product counted, whatever its order's status *)
SoldQtyAnyStatus(os, cs, p) ==
  SumOver(cs, {c \in DOMAIN cs : /\ cs[c].product_id = p
                                 /\ cs[c].order_id \in DOMAIN os}, "qty")

SoldQty(os, cs, p) ==
  SumOver(cs, {c \in DOMAIN cs : /\ cs[c].product_id = p
                                 /\ cs[c].order_id \in DOMAIN os
                                 /\ os[cs[c].order_id].status \in SoldStatus}, "qty")

StockLeft(st, os, cs, p) == TotalStock(st, p) - SoldQty(os, cs, p)

(* Product.findOne({ _id: productId, vendor_id: vendorId }) decides 404;   *)
(* otherwise the answer carries totalStock, soldQty and their difference.  *)
StockLeftView(v, p) ==
  /\ UNCHANGED <<orders, carts, stocks, nextOrder, nextCart, nextStock, reqs, complaints, vendors>>
  /\ IF p \notin Products \/ vendor_id[p] # v
     THEN resp' = Response("stockLeft", 404)
     ELSE resp' = [op |-> "stockLeft", code |-> 200,
                   body |-> [product_id |-> p, vendor_id |-> v,
                             totalStock |-> TotalStock(stocks, p),
                             soldQty |-> SoldQty(orders, carts, p),
                             stockLeft |-> StockLeft(stocks, orders, carts, p)]]

(* ---------------- POST /orders/pay ---------------- *)
(* Products are never deleted here, so Product.findById finds the product  *)
(* of every line item.  product.stock is an ad-hoc property of the loaded  *)
(* document: product.save() has no modified schema path and writes nothing.*)
(* the lookup without the status filter *)
PayOrderFoundAnyStatus(os, u, o) ==
  o \in DOMAIN os /\ os[o].user_id = u

(* Order.findOne({ _id: order_id, user_id, status: "1" }) *)
PayOrderFound(os, u, o) ==
  o \in DOMAIN os /\ os[o].user_id = u /\ os[o].status = "1"

RECURSIVE SeqOfSet(_)
SeqOfSet(S) ==
  IF S = {} THEN << >>
  ELSE LET k == CHOOSE x \in S : \A y \in S : x <= y
       IN  <<k>> \o SeqOfSet(S \ {k})

(* Cart.find({ order_id }) : the line items the loop walks over *)
PayItems(cs, o) ==
  LET ids == SeqOfSet(CartsOf(cs, o))
  IN  [i \in 1..Len(ids) |-> [product_id |-> cs[ids[i]].product_id, qty |-> cs[ids[i]].qty]]

(* product.stock = product.stock - cartItem.qty *)
StockAfter(item) == JsSub(ProductStockField(item.product_id), JsNum(item.qty))
(* if (product.stock < 0) *)
Insufficient(item) == JsLt(StockAfter(item), JsNum(0))

Pay(u, o) ==
  /\ UNCHANGED <<carts, stocks, nextOrder, nextCart, nextStock, reqs, complaints, vendors>>
  /\ IF ~PayOrderFound(orders, u, o)
     THEN /\ resp' = Response("pay", 404)
          /\ UNCHANGED orders
     ELSE LET items == PayItems(carts, o)
          IN  IF \E i \in 1..Len(items) : Insufficient(items[i])
              THEN /\ resp' = Response("pay", 400)
                   /\ UNCHANGED orders
              ELSE /\ orders' = [orders EXCEPT ![o].status = "2"]
                   /\ resp' = Response("pay", 200)

(* ---------------- status updates ---------------- *)
(* PUT /delivery/orders/accept/:id *)
DeliveryAccept(o, s, d) ==
  /\ UNCHANGED <<carts, stocks, nextOrder, nextCart, nextStock, reqs, complaints, vendors>>
  /\ IF d \notin DeliveryPersons
     THEN /\ resp' = Response("deliveryAccept", 404)
          /\ UNCHANGED orders
     ELSE IF o \notin DOMAIN orders
     THEN /\ resp' = Response("deliveryAccept", 404)
          /\ UNCHANGED orders
     ELSE /\ orders' = [orders EXCEPT ![o].status = s, ![o].delivery_boy_id = d]
          /\ resp' = Response("deliveryAccept", 200)

(* PUT /orders/accept/:id *)
OrdersAccept(o, s) ==
  /\ UNCHANGED <<carts, stocks, nextOrder, nextCart, nextStock, reqs, complaints, vendors>>
  /\ IF o \notin DOMAIN orders
     THEN /\ resp' = Response("ordersAccept", 404)
          /\ UNCHANGED orders
     ELSE /\ orders' = [orders EXCEPT ![o].status = s]
          /\ resp' = Response("ordersAccept", 200)

(* PUT /orders/update/:id *)
OrdersUpdate(o, s) ==
  /\ UNCHANGED <<carts, stocks, nextOrder, nextCart, nextStock, reqs, complaints, vendors>>
  /\ IF s \notin {"4", "5"}
     THEN /\ resp' = Response("ordersUpdate", 400)
          /\ UNCHANGED orders
     ELSE IF o \notin DOMAIN orders
     THEN /\ resp' = Response("ordersUpdate", 404)
          /\ UNCHANGED orders
     ELSE /\ orders' = [orders EXCEPT ![o].status = s]
          /\ resp' = Response("ordersUpdate", 200)

(* ---------------- cart operations and payment ---------------- *)
Next ==
  \/ \E u \in CartUsers, p \in Products \cup {NoProduct}, q \in QtyInputs : AddItem(u, p, q)
  \/ \E c \in CartIds : RemoveItem(c)
  \/ \E c \in CartIds, q \in QtyInputs : UpdateQty(c, q)
  \/ \E u \in Users : Confirm(u)
  \/ \E u \in Users, o \in OrderIds : Pay(u, o)

Spec == Init /\ [][Next]_vars

(* ---------------- payment against the stock ledger ---------------- *)
NextStock ==
  \/ \E u \in CartUsers, p \in Products, q \in LifecycleQtyInputs : AddItem(u, p, q)
  \/ \E u \in Users, o \in OrderIds : Pay(u, o)
  \/ \E p \in Products, q \in StockQtyInputs : UpdateStock(p, q)

SpecStock == Init /\ [][NextStock]_vars

(* ---------------- payment of orders in any status ---------------- *)
NextPay ==
  \/ \E u \in CartUsers, p \in LifecycleProducts, q \in LifecycleQtyInputs : AddItem(u, p, q)
  \/ \E u \in Users, o \in OrderIds : Pay(u, o)
  \/ \E o \in OrderIds, s \in OrderStatus : OrdersAccept(o, s)

SpecPay == Init /\ [][NextPay]_vars

(* ---------------- the stock-left view over orders in any status ---------------- *)
NextStockView ==
  \/ \E u \in CartUsers, p \in LifecycleProducts, q \in LifecycleQtyInputs : AddItem(u, p, q)
  \/ \E u \in CartUsers, o \in OrderIds : Pay(u, o)
  \/ \E o \in OrderIds, s \in OrderStatus : OrdersAccept(o, s)
  \/ \E p \in LifecycleProducts, q \in StockQtyInputs : UpdateStock(p, q)
  \/ \E v \in Vendors, p \in Products \cup {NoProduct} : StockLeftView(v, p)

SpecStockView == Init /\ [][NextStockView]_vars

(* ---------------- status changes of orders ---------------- *)
NextLifecycle ==
  \/ \E u \in CartUsers, p \in LifecycleProducts, q \in LifecycleQtyInputs : AddItem(u, p, q)
  \/ \E u \in Users : Confirm(u)
  \/ \E u \in Users, o \in OrderIds : Pay(u, o)
  \/ \E o \in OrderIds, s \in OrderStatus, d \in DeliveryPersons \cup {NoDeliveryPerson} :
       DeliveryAccept(o, s, d)
  \/ \E o \in OrderIds, s \in OrderStatus : OrdersAccept(o, s)
  \/ \E o \in OrderIds, s \in OrderStatus : OrdersUpdate(o, s)

SpecLifecycle == Init /\ [][NextLifecycle]_vars

(* ---------------- POST /orders/pay, one await per step ---------------- *)
(* Two requests run the handler concurrently; reqs[r] holds the locals of  *)
(* request r between two awaits.                                           *)
PayRequest(u, o) ==
  [pc |-> "findOrder", user_id |-> u, order_id |-> o, items |-> << >>,
   i |-> 0, stock |-> Undefined, code |-> 0]

InitPayRace ==
  /\ orders = [o \in {1, 2} |->
                 [user_id |-> IF o = 1 THEN "u1" ELSE "u2", vendor_id |-> "v1",
                  status |-> "1", order_amount |-> 350, delivery_boy_id |-> Null]]
  /\ carts = [c \in 1..4 |->
                [user_id |-> IF c <= 2 THEN "u1" ELSE "u2",
                 product_id |-> IF c \in {1, 3} THEN "P" ELSE "Q",
                 qty |-> IF c \in {1, 3} THEN 3 ELSE 1,
                 cart_price |-> IF c \in {1, 3} THEN 300 ELSE 50,
                 order_id |-> IF c <= 2 THEN 1 ELSE 2,
                 status |-> "processing"]]
  /\ \E s \in RaceStocks :
       stocks = [k \in {1, 2} |->
                   IF k = 1 THEN [product_id |-> "P", stock_quantity |-> s]
                            ELSE [product_id |-> "Q", stock_quantity |-> 2]]
  /\ nextOrder = 3
  /\ nextCart = 5
  /\ nextStock = 3
  /\ resp = Response("none", 0)
  /\ reqs = [r \in Slots |-> PayRequest(IF r = 1 THEN "u1" ELSE "u2", r)]
  /\ complaints = << >>
  /\ vendors = VendorDocs

(* const order = await Order.findOne(...) *)
PayFindOrder(r) ==
  /\ reqs[r].pc = "findOrder"
  /\ IF PayOrderFound(orders, reqs[r].user_id, reqs[r].order_id)
     THEN /\ reqs' = [reqs EXCEPT ![r].pc = "findCarts"]
          /\ UNCHANGED resp
     ELSE /\ reqs' = [reqs EXCEPT ![r].pc = "done", ![r].code = 404]
          /\ resp' = Response("pay", 404)
  /\ UNCHANGED db

(* const cartItems = await Cart.find({ order_id }) *)
PayFindCarts(r) ==
  /\ reqs[r].pc = "findCarts"
  /\ LET items == PayItems(carts, reqs[r].order_id)
     IN  reqs' = [reqs EXCEPT ![r].items = items, ![r].i = 1,
                              ![r].pc = IF Len(items) = 0 THEN "saveOrder"
                                        ELSE "findProduct"]
  /\ UNCHANGED <<db, resp>>

(* const product = await Product.findById(...); the subtraction and the check *)
PayFindProduct(r) ==
  /\ reqs[r].pc = "findProduct"
  /\ LET item == reqs[r].items[reqs[r].i]
     IN  IF Insufficient(item)
         THEN /\ reqs' = [reqs EXCEPT ![r].pc = "done", ![r].code = 400,
                                      ![r].stock = StockAfter(item)]
              /\ resp' = Response("pay", 400)
         ELSE /\ reqs' = [reqs EXCEPT ![r].pc = "saveProduct",
                                      ![r].stock = StockAfter(item)]
              /\ UNCHANGED resp
  /\ UNCHANGED db

(* await product.save(): stock is no path of productSchema, nothing is written *)
PaySaveProduct(r) ==
  /\ reqs[r].pc = "saveProduct"
  /\ reqs' = [reqs EXCEPT ![r].i = @ + 1,
                          ![r].pc = IF reqs[r].i < Len(reqs[r].items)
                                    THEN "findProduct" ELSE "saveOrder"]
  /\ UNCHANGED <<db, resp>>

(* order.status = "2"; await order.save() *)
PaySaveOrder(r) ==
  /\ reqs[r].pc = "saveOrder"
  /\ orders' = [orders EXCEPT ![reqs[r].order_id].status = "2"]
  /\ reqs' = [reqs EXCEPT ![r].pc = "done", ![r].code = 200]
  /\ resp' = Response("pay", 200)
  /\ UNCHANGED <<carts, stocks, nextOrder, nextCart, nextStock, complaints, vendors>>

NextPayRace ==
  \/ \E r \in Slots : PayFindOrder(r)
  \/ \E r \in Slots : PayFindCarts(r)
  \/ \E r \in Slots : PayFindProduct(r)
  \/ \E r \in Slots : PaySaveProduct(r)
  \/ \E r \in Slots : PaySaveOrder(r)

SpecPayRace == InitPayRace /\ [][NextPayRace]_vars


(* ======================= properties ======================= *)

(* ================= complaints ================= *)
(* A string value by its length and the length of its trim(). *)
Str(len, trimmed) == [t |-> "string", len |-> len, trimmed |-> trimmed]
Trim(x) == Str(x.trimmed, x.trimmed)
(* a body field that the request does not carry *)
NoString == [t |-> "undefined", len |-> 0, trimmed |-> 0]
NoCart == 0
(* !x for a string field, and for an id field *)
Falsy(x) == x.t = "undefined" \/ x.len = 0

TitleMax == 100
ContentMin == 20
TitleInputs == {NoString, Str(TitleMax, TitleMax), Str(TitleMax + 1, TitleMax + 1)}
ContentInputs == {NoString, Str(ContentMin - 1, ContentMin - 1),
                  Str(ContentMin, ContentMin), Str(ContentMin, 0)}
ComplaintUserInputs == {Null, "u1"}
ComplaintCartInputs == {NoCart, 1}
ReplyInputs == {"", "done"}
ReplyStatusInputs == {"", "pending", "resolved", "rejected", "closed"}
ComplaintIds == 1..MaxComplaints

(* complaintSchema: title and content required (a required String rejects  *)
(* the empty string), cart_id and user_id required, status in the enum     *)
ComplaintStatus == {"pending", "resolved", "rejected"}
ComplaintValid(doc) ==
  /\ doc.title.len > 0
  /\ doc.content.len > 0
  /\ doc.cart_id # NoCart
  /\ doc.user_id # Null
  /\ doc.status \in ComplaintStatus

NewComplaint(user_id, cart_id, title, content) ==
  [title |-> Trim(title), content |-> Trim(content), cart_id |-> cart_id,
   user_id |-> user_id, status |-> "pending", reply |-> Null]

(* new Complaint({...}); await complaint.save(): 201, or 500 from the catch *)
SaveComplaint(op, doc) ==
  IF ComplaintValid(doc)
  THEN /\ Len(complaints) < MaxComplaints
       /\ complaints' = Append(complaints, doc)
       /\ resp' = Response(op, 201)
  ELSE /\ complaints' = complaints
       /\ resp' = Response(op, 500)

(* ---------------- POST /user/complaint ---------------- *)
UserComplaintErrors(user_id, cart_id, title, content) ==
  (IF user_id = Null THEN {"user_id"} ELSE {})
  \cup (IF cart_id = NoCart THEN {"cart_id"} ELSE {})
  \cup (IF Falsy(title) THEN {"title"} ELSE {})
  \cup (IF Falsy(content) THEN {"content"} ELSE {})
  \cup (IF ~Falsy(content) /\ content.len < ContentMin THEN {"content"} ELSE {})
  \cup (IF ~Falsy(title) /\ title.len > TitleMax THEN {"title"} ELSE {})

UserComplaint(user_id, cart_id, title, content) ==
  /\ UNCHANGED <<orders, carts, stocks, nextOrder, nextCart, nextStock, reqs, vendors>>
  /\ LET errors == UserComplaintErrors(user_id, cart_id, title, content)
     IN  IF errors # {}
         THEN /\ resp' = [op |-> "userComplaint", code |-> 400,
                          body |-> [message |-> "Validation failed", errors |-> errors]]
              /\ complaints' = complaints
         ELSE SaveComplaint("userComplaint",
                            NewComplaint(user_id, cart_id, title, content))

(* ---------------- POST /complaints ---------------- *)
MissingFields(title, content, cart_id, user_id) ==
  (IF Falsy(title) THEN {"title"} ELSE {})
  \cup (IF Falsy(content) THEN {"content"} ELSE {})
  \cup (IF cart_id = NoCart THEN {"cart_id"} ELSE {})
  \cup (IF user_id = Null THEN {"user_id"} ELSE {})

PostComplaints(title, content, cart_id, user_id) ==
  /\ UNCHANGED <<orders, carts, stocks, nextOrder, nextCart, nextStock, reqs, vendors>>
  /\ LET missingFields == MissingFields(title, content, cart_id, user_id)
     IN  IF missingFields # {}
         THEN /\ resp' = [op |-> "complaints", code |-> 400,
                          body |-> [message |-> "Missing required fields",
                                    errors |-> missingFields]]
              /\ complaints' = complaints
         ELSE IF title.len > TitleMax
         THEN /\ resp' = [op |-> "complaints", code |-> 400,
                          body |-> [message |-> "Title must be 100 characters or less",
                                    errors |-> {}]]
              /\ complaints' = complaints
         ELSE IF content.len < ContentMin
         THEN /\ resp' = [op |-> "complaints", code |-> 400,
                          body |-> [message |-> "Content must be at least 20 characters",
                                    errors |-> {}]]
              /\ complaints' = complaints
         ELSE SaveComplaint("complaints", NewComplaint(user_id, cart_id, title, content))

(* ---------------- POST /admin/complaints/:complaintId/reply ---------------- *)
(* a reply that also cancels the line item the complaint is about *)
ComplaintReplyCancelsItem(complaintId, reply, status) ==
  /\ UNCHANGED <<orders, stocks, nextOrder, nextCart, nextStock, reqs, vendors>>
  /\ IF reply = "" \/ status = ""
     THEN /\ resp' = Response("complaintReply", 400)
          /\ UNCHANGED <<complaints, carts>>
     ELSE IF complaintId \notin DOMAIN complaints
     THEN /\ resp' = Response("complaintReply", 404)
          /\ UNCHANGED <<complaints, carts>>
     ELSE /\ complaints' = [complaints EXCEPT ![complaintId].reply = reply,
                                              ![complaintId].status = status]
          /\ carts' = IF complaints[complaintId].cart_id \in DOMAIN carts
                      THEN [carts EXCEPT ![complaints[complaintId].cart_id].status = "cancel"]
                      ELSE carts
          /\ resp' = Response("complaintReply", 200)

(* Complaint.findByIdAndUpdate(complaintId, { reply, status, ... }) runs no *)
(* schema validator.                                                        *)
ComplaintReply(complaintId, reply, status) ==
  /\ UNCHANGED <<orders, carts, stocks, nextOrder, nextCart, nextStock, reqs, vendors>>
  /\ IF reply = "" \/ status = ""
     THEN /\ resp' = Response("complaintReply", 400)
          /\ complaints' = complaints
     ELSE IF complaintId \notin DOMAIN complaints
     THEN /\ resp' = Response("complaintReply", 404)
          /\ complaints' = complaints
     ELSE /\ complaints' = [complaints EXCEPT ![complaintId].reply = reply,
                                              ![complaintId].status = status]
          /\ resp' = Response("complaintReply", 200)

NextComplaints ==
  \/ \E u \in ComplaintUserInputs, c \in ComplaintCartInputs,
        title \in TitleInputs, content \in ContentInputs :
       UserComplaint(u, c, title, content)
  \/ \E u \in ComplaintUserInputs, c \in ComplaintCartInputs,
        title \in TitleInputs, content \in ContentInputs :
       PostComplaints(title, content, c, u)
  \/ \E id \in ComplaintIds, reply \in ReplyInputs, status \in ReplyStatusInputs :
       ComplaintReply(id, reply, status)

SpecComplaints == Init /\ [][NextComplaints]_vars

(* ================= GET /admin/vendors-report ================= *)
(* OrderSchema.date defaults to Date.now: orders are created one after    *)
(* another, the day of an order is counted by its place in that sequence. *)
OrderDate(o) == o
NoDate == 0
DateInputs == {NoDate} \cup OrderIds

(* $lookup orders, $unwind, $match on the order's date and on the cart     *)
(* item's own status 'processing', $lookup products, $unwind               *)
ReportRows(os, cs, fromDate, toDate) ==
  {c \in DOMAIN cs : /\ cs[c].order_id \in DOMAIN os
                     /\ OrderDate(cs[c].order_id) >= fromDate
                     /\ OrderDate(cs[c].order_id) <= toDate
                     /\ cs[c].status = "processing"
                     /\ cs[c].product_id \in Products}

(* $group by productDetails.vendor_id with $sum of cart_price; the last    *)
(* $lookup vendors / $unwind drops a group whose vendor document is gone   *)
ReportGroups(os, cs, vs, fromDate, toDate) ==
  LET rows == ReportRows(os, cs, fromDate, toDate)
      of(v) == {c \in rows : vendor_id[cs[c].product_id] = v}
  IN  {[vendorId |-> v, totalEarnings |-> SumOver(cs, of(v), "cart_price")] :
         v \in {w \in DOMAIN vs : of(w) # {}}}

(* $sort: { totalEarnings: -1 } fixes the order of groups with different   *)
(* sums only; groups with equal sums come in any order.                    *)
SortedByEarnings(G) ==
  {s \in [1..Cardinality(G) -> G] :
     /\ \A i, j \in DOMAIN s : i # j => s[i] # s[j]
     /\ \A i, j \in DOMAIN s : i < j => s[i].totalEarnings >= s[j].totalEarnings}

VendorsReport(from, to) ==
  /\ UNCHANGED <<orders, carts, stocks, nextOrder, nextCart, nextStock, reqs,
                 complaints, vendors>>
  /\ IF from = NoDate \/ to = NoDate
     THEN resp' = Response("vendorsReport", 400)
     ELSE \E body \in SortedByEarnings(ReportGroups(orders, carts, vendors, from, to)) :
            resp' = [op |-> "vendorsReport", code |-> 200, body |-> body]

(* ---------------- GET /admin/top-product ---------------- *)
(* the same join as the vendors report, with the vendor joined before the  *)
(* $group by product; totalQty and totalRevenue are the $sum of qty and of *)
(* cart_price                                                              *)
TopProductGroups(os, cs, vs, fromDate, toDate) ==
  LET rows == {c \in ReportRows(os, cs, fromDate, toDate) :
                 vendor_id[cs[c].product_id] \in DOMAIN vs}
      of(p) == {c \in rows : cs[c].product_id = p}
  IN  {[productId |-> p, vendorId |-> vendor_id[p],
        totalQty |-> SumOver(cs, of(p), "qty"),
        totalRevenue |-> SumOver(cs, of(p), "cart_price")] :
         p \in {x \in Products : of(x) # {}}}

(* { $sort: { totalQty: -1 } }, { $limit: 1 }: a group that no other group *)
(* exceeds in totalQty; res.json(result[0] || {})                          *)
TopProduct(from, to) ==
  /\ UNCHANGED <<orders, carts, stocks, nextOrder, nextCart, nextStock, reqs,
                 complaints, vendors>>
  /\ LET G == TopProductGroups(orders, carts, vendors, from, to)
     IN  IF G = {}
         THEN resp' = [op |-> "topProduct", code |-> 200, body |-> << >>]
         ELSE \E g \in G :
                /\ \A h \in G : h.totalQty <= g.totalQty
                /\ resp' = [op |-> "topProduct", code |-> 200, body |-> <<g>>]

(* ---------------- GET /admin/top-vendor/yearly ---------------- *)
(* every order is created in the running year *)
CurrentYear == 1
OrderYear(o) == CurrentYear
(* req.query.v: 0 stands for an absent or unreadable one *)
YearInputs == {0, 1, 2}

(* $lookup products, orders; $match on the order's year; $group by vendor  *)
TopVendorGroups(os, cs, year) ==
  LET rows == {c \in DOMAIN cs : /\ cs[c].product_id \in Products
                                 /\ cs[c].order_id \in DOMAIN os
                                 /\ OrderYear(cs[c].order_id) = year}
      of(v) == {c \in rows : vendor_id[cs[c].product_id] = v}
  IN  {[vendorId |-> v, totalRevenue |-> SumOver(cs, of(v), "cart_price"),
        products |-> of(v)] : v \in {w \in Vendors : of(w) # {}}}

(* { $sort: { totalRevenue: -1 } }, { $limit: 1 }; mostSoldProduct is an   *)
(* item of the vendor that no other item of it exceeds in qty              *)
TopVendor(v) ==
  /\ UNCHANGED <<orders, carts, stocks, nextOrder, nextCart, nextStock, reqs,
                 complaints, vendors>>
  /\ LET year == IF v = 0 THEN CurrentYear ELSE v
         G == TopVendorGroups(orders, carts, year)
     IN  IF G = {}
         THEN resp' = Response("topVendor", 404)
         ELSE \E g \in G :
                /\ \A h \in G : h.totalRevenue <= g.totalRevenue
                /\ \E c \in g.products :
                     /\ \A d \in g.products : carts[d].qty <= carts[c].qty
                     /\ resp' = [op |-> "topVendor", code |-> 200,
                                 body |-> [vendor |-> g.vendorId,
                                           mostSoldProduct |-> carts[c].product_id,
                                           totalRevenue |-> g.totalRevenue]]

NextReport ==
  \/ \E u \in CartUsers, p \in Products, q \in LifecycleQtyInputs : AddItem(u, p, q)
  \/ \E u \in Users, o \in OrderIds : Pay(u, o)
  \/ \E from \in DateInputs, to \in DateInputs : VendorsReport(from, to)
  \/ \E from \in OrderIds, to \in OrderIds : TopProduct(from, to)
  \/ \E v \in YearInputs : TopVendor(v)

SpecReport == Init /\ [][NextReport]_vars

(* ================= haversineDistance ================= *)
(* Fixed-point arithmetic: angles in units of pi/360 (half degrees), so    *)
(* that Math.PI is 360 units; sines and cosines in thousandths, tabulated  *)
(* every 15 degrees (30 units). A product is rounded to the nearest        *)
(* thousandth, away from zero on a tie: rounding is the same for x and -x, *)
(* as it is for IEEE-754 doubles.                                          *)
PI == 360
Scale == 1000
R == 6371
SinTable == <<0, 259, 500, 707, 866, 966, 1000>>

Abs(x) == IF x < 0 THEN -x ELSE x
Sgn(x) == IF x < 0 THEN -1 ELSE 1
RoundDiv(x, m) == Sgn(x) * ((2 * Abs(x) + m) \div (2 * m))
Mul(x, y) == RoundDiv(x * y, Scale)

(* Math.sin, Math.cos on multiples of 30 units *)
Sin(x) ==
  LET m == (x \div 30) % 24
  IN  IF m <= 6 THEN SinTable[m + 1]
      ELSE IF m <= 12 THEN SinTable[12 - m + 1]
      ELSE IF m <= 18 THEN -SinTable[m - 12 + 1]
      ELSE -SinTable[24 - m + 1]
Cos(x) == Sin(x + PI \div 2)

(* Math.sqrt of a value in 0..Scale, in thousandths *)
Sqrt(x) == CHOOSE r \in 0..Scale : r * r <= x * Scale /\ x * Scale < (r + 1) * (r + 1)

(* Math.atan2(y, x) for y, x >= 0, to the table's step: the tabulated     *)
(* angle whose direction is nearest to (x, y), the smaller one on a tie    *)
Atan2(y, x) ==
  LET angles == {30 * k : k \in 0..6}
      off(t) == Abs(Sin(t) * x - Cos(t) * y)
  IN  CHOOSE t \in angles :
        \A u \in angles : off(t) < off(u) \/ (off(t) = off(u) /\ t <= u)

toRad(angle) == (angle * PI) \div 180

(* the second cosine taken at lat1 as well *)
HaversineASameLat(lat1, lon1, lat2, lon2) ==
  LET dLat == toRad(lat2 - lat1)
      dLon == toRad(lon2 - lon1)
  IN  Mul(Sin(dLat \div 2), Sin(dLat \div 2))
      + Mul(Mul(Mul(Cos(toRad(lat1)), Cos(toRad(lat1))), Sin(dLon \div 2)), Sin(dLon \div 2))

(* const a = sin(dLat/2)^2 + cos(lat1) * cos(lat2) * sin(dLon/2)^2 *)
HaversineA(lat1, lon1, lat2, lon2) ==
  LET dLat == toRad(lat2 - lat1)
      dLon == toRad(lon2 - lon1)
  IN  Mul(Sin(dLat \div 2), Sin(dLat \div 2))
      + Mul(Mul(Mul(Cos(toRad(lat1)), Cos(toRad(lat2))), Sin(dLon \div 2)), Sin(dLon \div 2))

(* c = 2 * atan2(sqrt(a), sqrt(1 - a)); the result R * c is in km x pi/360 *)
haversineDistance(lat1, lon1, lat2, lon2) ==
  LET a == HaversineA(lat1, lon1, lat2, lon2)
      c == 2 * Atan2(Sqrt(a), Sqrt(Scale - a))
  IN  R * c

LatInputs == {-30, 0, 30, 60}
LonInputs == {-30, 0, 30, 60}

(* one call of the function on any four coordinates *)
InitHaversine ==
  /\ orders = << >>
  /\ carts = << >>
  /\ stocks = << >>
  /\ nextOrder = 1
  /\ nextCart = 1
  /\ nextStock = 1
  /\ resp = Response("none", 0)
  /\ complaints = << >>
  /\ vendors = VendorDocs
  /\ \E lat1 \in LatInputs, lon1 \in LonInputs, lat2 \in LatInputs, lon2 \in LonInputs :
       reqs = [lat1 |-> lat1, lon1 |-> lon1, lat2 |-> lat2, lon2 |-> lon2]

Haversine ==
  /\ resp = Response("none", 0)
  /\ resp' = [op |-> "haversineDistance", code |-> 0,
              body |-> haversineDistance(reqs.lat1, reqs.lon1, reqs.lat2, reqs.lon2)]
  /\ UNCHANGED <<db, reqs>>

NextHaversine == Haversine

SpecHaversine == InitHaversine /\ [][NextHaversine]_vars

(* ================= vendors and distance-annotated results ================= *)
JsNull == [t |-> "null", v |-> 0]
VendorCoordInputs == {0, 30}
(* req.query.latitude / longitude arrive as strings; "" is an absent one *)
GeoQueryInputs == {"", "0", "30"}
parseFloat(s) == IF s = "30" THEN 30 ELSE 0
(* req.query.query: "." matches every product name, "x" none *)
QueryInputs == {"", ".", "P", "x"}
Matching(query) ==
  IF query = "." THEN Products
  ELSE IF query \in Products THEN {query}
  ELSE {}

(* PUT /vendor/update/:id *)
VendorUpdate(v, vendor_lat, vendor_lon) ==
  /\ UNCHANGED <<orders, carts, stocks, nextOrder, nextCart, nextStock, reqs, complaints>>
  /\ IF v \notin DOMAIN vendors
     THEN /\ resp' = Response("vendorUpdate", 404)
          /\ vendors' = vendors
     ELSE /\ vendors' = [vendors EXCEPT ![v] = [vendor_lat |-> vendor_lat,
                                                vendor_lon |-> vendor_lon]]
          /\ resp' = Response("vendorUpdate", 200)

(* DELETE /vendor/delete/:id : the vendor's products stay *)
VendorDelete(v) ==
  /\ UNCHANGED <<orders, carts, stocks, nextOrder, nextCart, nextStock, reqs, complaints>>
  /\ IF v \notin DOMAIN vendors
     THEN /\ resp' = Response("vendorDelete", 404)
          /\ vendors' = vendors
     ELSE /\ vendors' = Del(vendors, v)
          /\ resp' = Response("vendorDelete", 200)

(* !vendor || !vendor.vendor_lat || !vendor.vendor_lon, on the populated vendor *)
NoLocation(vs, p) ==
  \/ vendor_id[p] \notin DOMAIN vs
  \/ vs[vendor_id[p]].vendor_lat = 0
  \/ vs[vendor_id[p]].vendor_lon = 0

Distance(vs, p, latitude, longitude) ==
  JsNum(haversineDistance(parseFloat(latitude), parseFloat(longitude),
                          vs[vendor_id[p]].vendor_lat, vs[vendor_id[p]].vendor_lon))

(* a.distance - b.distance: null counts as 0 *)
DistanceKey(d) == IF IsNum(d) THEN d.v ELSE 0

(* results.sort((a, b) => a.distance - b.distance) on the documents in the *)
(* order the find returned them, which no sort fixes                       *)
SortedByDistance(G) ==
  {s \in [1..Cardinality(G) -> G] :
     /\ \A i, j \in DOMAIN s : i # j => s[i] # s[j]
     /\ \A i, j \in DOMAIN s :
          i < j => DistanceKey(s[i].distance) <= DistanceKey(s[j].distance)}

(* GET /nearby-products without a category *)
NearbyProducts(latitude, longitude) ==
  /\ UNCHANGED <<orders, carts, stocks, nextOrder, nextCart, nextStock, reqs,
                 complaints, vendors>>
  /\ IF latitude = "" \/ longitude = ""
     THEN resp' = Response("nearbyProducts", 400)
     ELSE LET validProducts ==
                {[product_id |-> p, distance |-> Distance(vendors, p, latitude, longitude)] :
                   p \in {x \in Products : ~NoLocation(vendors, x)}}
          IN  \E body \in SortedByDistance(validProducts) :
                resp' = [op |-> "nearbyProducts", code |-> 200, body |-> body]

(* GET /search *)
Search(query, latitude, longitude) ==
  /\ UNCHANGED <<orders, carts, stocks, nextOrder, nextCart, nextStock, reqs,
                 complaints, vendors>>
  /\ IF query = "" \/ latitude = "" \/ longitude = ""
     THEN resp' = Response("search", 400)
     ELSE IF Matching(query) = {}
     THEN resp' = Response("search", 404)
     ELSE LET results ==
                {[product_id |-> p,
                  distance |-> IF NoLocation(vendors, p) THEN JsNull
                               ELSE Distance(vendors, p, latitude, longitude)] :
                   p \in Matching(query)}
          IN  \E body \in SortedByDistance(results) :
                resp' = [op |-> "search", code |-> 200, body |-> body]

NextGeo ==
  \/ \E v \in Vendors, lat \in VendorCoordInputs, lon \in VendorCoordInputs :
       VendorUpdate(v, lat, lon)
  \/ \E v \in Vendors : VendorDelete(v)
  \/ \E lat \in GeoQueryInputs, lon \in GeoQueryInputs : NearbyProducts(lat, lon)
  \/ \E q \in QueryInputs, lat \in GeoQueryInputs, lon \in GeoQueryInputs :
       Search(q, lat, lon)

SpecGeo == Init /\ [][NextGeo]_vars

(* ================= two concurrent POST /cart/insert ================= *)
(* A request runs from one await to the next; between two awaits the other *)
(* request may run. The order and the cart item a request has read are     *)
(* documents in its memory: order_amount, cart_qty and cart_price below.   *)
NoOrder == 0
AddRequest(u, p, q) ==
  [pc |-> "findProduct", user_id |-> u, product_id |-> p, qty |-> q,
   order_id |-> NoOrder, order_amount |-> 0, created |-> FALSE,
   cart_id |-> 0, cart_qty |-> 0, cart_price |-> 0, code |-> 0]

(* the user has no open order, or one open order holding one unit of P *)
InitAddRace ==
  /\ \E existing \in BOOLEAN :
       IF existing
       THEN /\ orders = <<[NewOrder("u1", "P") EXCEPT !.order_amount = price["P"]]>>
            /\ carts = <<NewCart("u1", "P", 1, 1)>>
            /\ nextOrder = 2
            /\ nextCart = 2
       ELSE /\ orders = << >>
            /\ carts = << >>
            /\ nextOrder = 1
            /\ nextCart = 1
  /\ stocks = << >>
  /\ nextStock = 1
  /\ resp = Response("none", 0)
  /\ complaints = << >>
  /\ vendors = VendorDocs
  /\ \E p1 \in Products, p2 \in Products :
       reqs = [r \in Slots |-> AddRequest("u1", IF r = 1 THEN p1 ELSE p2, 1)]

AddFail(r, code) ==
  /\ reqs' = [reqs EXCEPT ![r].pc = "done", ![r].code = code]
  /\ resp' = Response("addItem", code)

(* the validation and const product = await Product.findById(product_id) *)
AddFindProduct(r) ==
  /\ reqs[r].pc = "findProduct"
  /\ IF reqs[r].qty = 0
     THEN AddFail(r, 400)
     ELSE IF reqs[r].product_id \notin Products
     THEN AddFail(r, 404)
     ELSE reqs' = [reqs EXCEPT ![r].pc = "findOrder"] /\ UNCHANGED resp
  /\ UNCHANGED db

(* let order = await Order.findOne({ user_id, status: "1" }) *)
AddFindOrder(r) ==
  /\ reqs[r].pc = "findOrder"
  /\ LET found == OpenOrders(orders, reqs[r].user_id)
     IN  IF found = {}
         THEN reqs' = [reqs EXCEPT ![r].pc = "saveNewOrder"]
         ELSE \E o \in found :
                reqs' = [reqs EXCEPT ![r].pc = "findCart", ![r].order_id = o,
                                     ![r].order_amount = orders[o].order_amount]
  /\ UNCHANGED <<db, resp>>

(* an insert that first looks for an open order of the user and takes it *)
AddSaveNewOrderUpsert(r) ==
  /\ reqs[r].pc = "saveNewOrder"
  /\ LET found == OpenOrders(orders, reqs[r].user_id)
     IN  IF found = {}
         THEN /\ orders' = Put(orders, nextOrder,
                               NewOrder(reqs[r].user_id, reqs[r].product_id))
              /\ nextOrder' = nextOrder + 1
              /\ reqs' = [reqs EXCEPT ![r].pc = "findCart", ![r].order_id = nextOrder,
                                      ![r].order_amount = 0, ![r].created = TRUE]
         ELSE \E o \in found :
                /\ UNCHANGED <<orders, nextOrder>>
                /\ reqs' = [reqs EXCEPT ![r].pc = "findCart", ![r].order_id = o,
                                        ![r].order_amount = orders[o].order_amount,
                                        ![r].created = TRUE]
  /\ UNCHANGED <<carts, stocks, nextCart, nextStock, resp, complaints, vendors>>

(* order = new Order({...}); await order.save() *)
AddSaveNewOrder(r) ==
  /\ reqs[r].pc = "saveNewOrder"
  /\ orders' = Put(orders, nextOrder, NewOrder(reqs[r].user_id, reqs[r].product_id))
  /\ nextOrder' = nextOrder + 1
  /\ reqs' = [reqs EXCEPT ![r].pc = "findCart", ![r].order_id = nextOrder,
                          ![r].order_amount = 0, ![r].created = TRUE]
  /\ UNCHANGED <<carts, stocks, nextCart, nextStock, resp, complaints, vendors>>

(* const existingCartItem = await Cart.findOne({ user_id, product_id, order_id }) *)
AddFindCart(r) ==
  /\ reqs[r].pc = "findCart"
  /\ LET existing == {c \in DOMAIN carts :
                        /\ carts[c].user_id = reqs[r].user_id
                        /\ carts[c].product_id = reqs[r].product_id
                        /\ carts[c].order_id = reqs[r].order_id}
     IN  IF existing = {}
         THEN reqs' = [reqs EXCEPT ![r].pc = "saveNewCart"]
         ELSE \E c \in existing :
                reqs' = [reqs EXCEPT ![r].pc = "saveExisting", ![r].cart_id = c,
                                     ![r].cart_qty = carts[c].qty,
                                     ![r].cart_price = carts[c].cart_price]
  /\ UNCHANGED <<db, resp>>

(* existingCartItem.qty += qty; existingCartItem.cart_price += cart_price;  *)
(* await existingCartItem.save(): the two paths are set to the values in    *)
(* the request's memory                                                     *)
AddSaveExisting(r) ==
  /\ reqs[r].pc = "saveExisting"
  /\ LET c == reqs[r].cart_id
         qty == reqs[r].cart_qty + reqs[r].qty
         cart_price == reqs[r].cart_price + price[reqs[r].product_id] * reqs[r].qty
     IN  IF c \in DOMAIN carts /\ CartValid(JsNum(qty), JsNum(cart_price))
         THEN /\ carts' = [carts EXCEPT ![c].qty = qty, ![c].cart_price = cart_price]
              /\ reqs' = [reqs EXCEPT ![r].pc = "saveOrder", ![r].code = 200]
              /\ UNCHANGED resp
         ELSE /\ carts' = carts
              /\ AddFail(r, 500)
  /\ UNCHANGED <<orders, stocks, nextOrder, nextCart, nextStock, complaints, vendors>>

(* const cartItem = new Cart({...}); await cartItem.save() *)
AddSaveNewCart(r) ==
  /\ reqs[r].pc = "saveNewCart"
  /\ LET item == NewCart(reqs[r].user_id, reqs[r].product_id, reqs[r].qty,
                         reqs[r].order_id)
     IN  IF CartValid(JsNum(item.qty), JsNum(item.cart_price))
         THEN /\ carts' = Put(carts, nextCart, item)
              /\ nextCart' = nextCart + 1
              /\ reqs' = [reqs EXCEPT ![r].pc = "saveOrder", ![r].code = 201]
              /\ UNCHANGED resp
         ELSE /\ UNCHANGED <<carts, nextCart>>
              /\ AddFail(r, 500)
  /\ UNCHANGED <<orders, stocks, nextOrder, nextStock, complaints, vendors>>

(* order.order_amount += cart_price; await order.save(): order_amount is    *)
(* set to the value in the request's memory                                 *)
AddSaveOrder(r) ==
  /\ reqs[r].pc = "saveOrder"
  /\ LET o == reqs[r].order_id
         order_amount == reqs[r].order_amount + price[reqs[r].product_id] * reqs[r].qty
     IN  IF o \in DOMAIN orders
         THEN /\ orders' = [orders EXCEPT ![o].order_amount = order_amount]
              /\ reqs' = [reqs EXCEPT ![r].pc = "done", ![r].order_amount = order_amount]
              /\ resp' = Response("addItem", reqs[r].code)
         ELSE /\ orders' = orders
              /\ AddFail(r, 500)
  /\ UNCHANGED <<carts, stocks, nextOrder, nextCart, nextStock, complaints, vendors>>

NextAddRace ==
  \/ \E r \in Slots : AddFindProduct(r)
  \/ \E r \in Slots : AddFindOrder(r)
  \/ \E r \in Slots : AddSaveNewOrder(r)
  \/ \E r \in Slots : AddFindCart(r)
  \/ \E r \in Slots : AddSaveExisting(r)
  \/ \E r \in Slots : AddSaveNewCart(r)
  \/ \E r \in Slots : AddSaveOrder(r)

SpecAddRace == InitAddRace /\ [][NextAddRace]_vars

(* ================= the other writers of the stock ledger ================= *)
LedgerQtyInputs == {1, 2}

(* POST /stocks : appends one ledger entry from the request body *)
PostStocks(p, q) ==
  /\ nextStock <= MaxStocks
  /\ stocks' = Put(stocks, nextStock, [product_id |-> p, stock_quantity |-> q])
  /\ nextStock' = nextStock + 1
  /\ resp' = Response("postStocks", 200)
  /\ UNCHANGED <<orders, carts, nextOrder, nextCart, reqs, complaints, vendors>>

(* PUT /product-stock/:stockId : Stock.findByIdAndUpdate(stockId, req.body); *)
(* the answer is the updated entry, or null for an unknown id                *)
ProductStockUpdate(stockId, p, q) ==
  /\ stocks' = IF stockId \in DOMAIN stocks
               THEN [stocks EXCEPT ![stockId] = [product_id |-> p, stock_quantity |-> q]]
               ELSE stocks
  /\ resp' = Response("productStockUpdate", 200)
  /\ UNCHANGED <<orders, carts, nextOrder, nextCart, nextStock, reqs, complaints, vendors>>

NextLedger ==
  \/ \E u \in CartUsers, p \in Products, q \in LifecycleQtyInputs : AddItem(u, p, q)
  \/ \E u \in Users, o \in OrderIds : Pay(u, o)
  \/ \E p \in Products, q \in StockQtyInputs : UpdateStock(p, q)
  \/ \E p \in Products, q \in LedgerQtyInputs : PostStocks(p, q)
  \/ \E k \in StockIds, p \in Products, q \in LedgerQtyInputs : ProductStockUpdate(k, p, q)

SpecLedger == Init /\ [][NextLedger]_vars

(* ================= GET /user/orders/products ================= *)
(* the user's orders in the statuses "2".."5", each with its cart items *)
UserOrderProducts(u) ==
  /\ UNCHANGED <<orders, carts, stocks, nextOrder, nextCart, nextStock, reqs,
                 complaints, vendors>>
  /\ IF u = Null
     THEN resp' = Response("userOrderProducts", 400)
     ELSE LET orderProducts ==
                {[order_id |-> o, status |-> orders[o].status,
                  cartItems |-> CartsOf(carts, o)] :
                   o \in {x \in DOMAIN orders : /\ orders[x].user_id = u
                                                /\ orders[x].status \in SoldStatus}}
          IN  IF orderProducts = {}
              THEN resp' = Response("userOrderProducts", 404)
              ELSE resp' = [op |-> "userOrderProducts", code |-> 200,
                            body |-> orderProducts]

(* ---------------- reports and complaints next to the cart and the payment ---------------- *)
FrameTitleInputs == {Str(TitleMax, TitleMax), Str(TitleMax + 1, TitleMax + 1)}
FrameContentInputs == {Str(ContentMin, ContentMin)}
FrameCartInputs == {1}
FrameReplyStatusInputs == {"resolved"}

NextFrame ==
  \/ \E u \in CartUsers, p \in LifecycleProducts, q \in LifecycleQtyInputs : AddItem(u, p, q)
  \/ \E u \in CartUsers, o \in OrderIds : Pay(u, o)
  \/ \E v \in Vendors, p \in LifecycleProducts : StockLeftView(v, p)
  \/ \E from \in OrderIds, to \in OrderIds : VendorsReport(from, to)
  \/ \E from \in OrderIds, to \in OrderIds : TopProduct(from, to)
  \/ \E v \in YearInputs : TopVendor(v)
  \/ \E u \in CartUsers \cup {Null} : UserOrderProducts(u)
  \/ \E u \in CartUsers, c \in FrameCartInputs,
        title \in FrameTitleInputs, content \in FrameContentInputs :
       UserComplaint(u, c, title, content)
  \/ \E u \in CartUsers, c \in FrameCartInputs,
        title \in FrameTitleInputs, content \in FrameContentInputs :
       PostComplaints(title, content, c, u)
  \/ \E id \in ComplaintIds, reply \in ReplyInputs, status \in FrameReplyStatusInputs :
       ComplaintReply(id, reply, status)

SpecFrame == Init /\ [][NextFrame]_vars

(* ============ DELETE /cart/:id concurrent with POST /cart/insert ============ *)
(* The removing request keeps in its memory the cart item it has read      *)
(* (cart_id, order_id, cart_price) and the order it has read, with         *)
(* order_amount already reduced by cart_price.                             *)
RemoveRequest(c) ==
  [pc |-> "removeFindCart", user_id |-> "u1", product_id |-> NoProduct, qty |-> 0,
   order_id |-> NoOrder, order_amount |-> 0, created |-> FALSE,
   cart_id |-> c, cart_qty |-> 0, cart_price |-> 0, code |-> 0]

(* the user's open order holds one unit of P, or one of P and one of Q;   *)
(* request 1 removes a cart item, request 2 adds one unit of a product     *)
InitCartRace ==
  /\ \E two \in BOOLEAN :
       IF two
       THEN /\ orders = <<[NewOrder("u1", "P") EXCEPT
                             !.order_amount = price["P"] + price["Q"]]>>
            /\ carts = <<NewCart("u1", "P", 1, 1), NewCart("u1", "Q", 1, 1)>>
            /\ nextCart = 3
       ELSE /\ orders = <<[NewOrder("u1", "P") EXCEPT !.order_amount = price["P"]]>>
            /\ carts = <<NewCart("u1", "P", 1, 1)>>
            /\ nextCart = 2
  /\ nextOrder = 2
  /\ stocks = << >>
  /\ nextStock = 1
  /\ resp = Response("none", 0)
  /\ complaints = << >>
  /\ vendors = VendorDocs
  /\ \E c \in Slots, p \in Products :
       reqs = [r \in Slots |-> IF r = 1 THEN RemoveRequest(c) ELSE AddRequest("u1", p, 1)]

RemoveDone(r, code) ==
  /\ reqs' = [reqs EXCEPT ![r].pc = "done", ![r].code = code]
  /\ resp' = Response("removeItem", code)

(* const cartItem = await Cart.findById(id);                               *)
(* const { order_id, cart_price } = cartItem                               *)
RemoveFindCart(r) ==
  /\ reqs[r].pc = "removeFindCart"
  /\ LET c == reqs[r].cart_id
     IN  IF c \notin DOMAIN carts
         THEN RemoveDone(r, 404)
         ELSE /\ reqs' = [reqs EXCEPT ![r].pc = "removeDeleteCart",
                                      ![r].order_id = carts[c].order_id,
                                      ![r].cart_price = carts[c].cart_price]
              /\ UNCHANGED resp
  /\ UNCHANGED db

(* await Cart.findByIdAndDelete(id) *)
RemoveDeleteCart(r) ==
  /\ reqs[r].pc = "removeDeleteCart"
  /\ carts' = Del(carts, reqs[r].cart_id)
  /\ reqs' = [reqs EXCEPT ![r].pc = "removeFindOrder"]
  /\ UNCHANGED <<orders, stocks, nextOrder, nextCart, nextStock, resp, complaints, vendors>>

(* const order = await Order.findById(order_id);                           *)
(* if (order) order.order_amount -= cart_price                             *)
RemoveFindOrder(r) ==
  /\ reqs[r].pc = "removeFindOrder"
  /\ LET o == reqs[r].order_id
     IN  IF o \notin DOMAIN orders
         THEN RemoveDone(r, 200)
         ELSE /\ reqs' = [reqs EXCEPT ![r].pc = "removeSaveOrder",
                            ![r].order_amount = orders[o].order_amount - reqs[r].cart_price]
              /\ UNCHANGED resp
  /\ UNCHANGED db

(* if (order.order_amount <= 0) await Order.findByIdAndDelete(order_id);   *)
(* else await order.save(): order_amount is set to the value in the        *)
(* request's memory                                                        *)
RemoveSaveOrder(r) ==
  /\ reqs[r].pc = "removeSaveOrder"
  /\ LET o == reqs[r].order_id
     IN  IF OrderEmptied(reqs[r].order_amount)
         THEN /\ orders' = Del(orders, o)
              /\ RemoveDone(r, 200)
         ELSE IF o \in DOMAIN orders
         THEN /\ orders' = [orders EXCEPT ![o].order_amount = reqs[r].order_amount]
              /\ RemoveDone(r, 200)
         ELSE /\ orders' = orders
              /\ RemoveDone(r, 500)
  /\ UNCHANGED <<carts, stocks, nextOrder, nextCart, nextStock, complaints, vendors>>

NextCartRace ==
  \/ \E r \in Slots : RemoveFindCart(r)
  \/ \E r \in Slots : RemoveDeleteCart(r)
  \/ \E r \in Slots : RemoveFindOrder(r)
  \/ \E r \in Slots : RemoveSaveOrder(r)
  \/ \E r \in Slots : AddFindProduct(r)
  \/ \E r \in Slots : AddFindOrder(r)
  \/ \E r \in Slots : AddSaveNewOrder(r)
  \/ \E r \in Slots : AddFindCart(r)
  \/ \E r \in Slots : AddSaveExisting(r)
  \/ \E r \in Slots : AddSaveNewCart(r)
  \/ \E r \in Slots : AddSaveOrder(r)

SpecCartRace == InitCartRace /\ [][NextCartRace]_vars

(* C1: the total of a user's open order equals the sum of the line totals *)
(* of the cart line items that reference the order.                       *)
C1_OrderTotalIsSum ==
  \A o \in DOMAIN orders :
    orders[o].status = "1" => orders[o].order_amount = LineTotal(carts, o)

C1_Witness ==
  \E o \in DOMAIN orders :
    /\ orders[o].status = "1"
    /\ Cardinality(CartsOf(carts, o)) = 2
    /\ orders[o].order_amount = 250
    /\ resp = Response("addItem", 201)

(* C2: every user has at most one order in the status that addItem looks  *)
(* for and creates (the open cart).                                       *)
C2_OneOpenOrderPerUser ==
  \A u \in Users : Cardinality(OpenOrders(orders, u)) <= 1

(* C3: removeItem on an existing line item deletes the item, subtracts    *)
(* its line total from the parent order, deletes the order exactly when   *)
(* the new total is <= 0 and keeps it with the reduced total otherwise.   *)
C3_RemoveItem ==
  [][\A c \in DOMAIN carts :
       (RemoveItem(c) /\ carts[c].order_id \in DOMAIN orders) =>
         LET o == carts[c].order_id
             total == orders[o].order_amount - carts[c].cart_price
         IN  /\ c \notin DOMAIN carts'
             /\ resp' = Response("removeItem", 200)
             /\ (total <= 0) <=> (o \notin DOMAIN orders')
             /\ total > 0 => orders'[o] = [orders[o] EXCEPT !.order_amount = total]
             /\ \A d \in DOMAIN carts \ {c} : d \in DOMAIN carts' /\ carts'[d] = carts[d]
    ]_vars

(* P (100, qty 2) and Q (50, qty 1) were added, P's item was removed: the *)
(* order is still there with total 50.                                    *)
C3_Witness ==
  /\ resp = Response("removeItem", 200)
  /\ nextCart = 3
  /\ \E o \in DOMAIN orders :
       /\ orders[o].order_amount = 50
       /\ \E c \in DOMAIN carts :
            /\ CartsOf(carts, o) = {c}
            /\ carts[c].product_id = "Q"
            /\ carts[c].qty = 1

(* C4: a payment succeeds only if the derived stock of the product of     *)
(* every line item covers the item's quantity; otherwise it answers 400   *)
(* and leaves the order as it was.                                        *)
C4_PayRequiresStock ==
  [][\A u \in Users, o \in DOMAIN orders :
       (Pay(u, o) /\ PayOrderFound(orders, u, o)) =>
         IF \A c \in CartsOf(carts, o) :
              StockLeft(stocks, orders, carts, carts[c].product_id) >= carts[c].qty
         THEN resp' = Response("pay", 200)
         ELSE resp' = Response("pay", 400) /\ orders' = orders
    ]_vars

(* C5: when the stock check fails for one line item of the order while   *)
(* another line item of it is covered, the payment changes the derived    *)
(* stock of no product and does not advance the order.                    *)
C5_PayAllOrNothing ==
  [][\A u \in Users, o \in DOMAIN orders :
       ( /\ Pay(u, o)
         /\ PayOrderFound(orders, u, o)
         /\ \E c \in CartsOf(carts, o) :
              StockLeft(stocks, orders, carts, carts[c].product_id) < carts[c].qty
         /\ \E c \in CartsOf(carts, o) :
              StockLeft(stocks, orders, carts, carts[c].product_id) >= carts[c].qty )
       => /\ orders'[o].status = orders[o].status
          /\ \A p \in Products :
               StockLeft(stocks', orders', carts', p) = StockLeft(stocks, orders, carts, p)
    ]_vars

(* C6: with 5 units of P on stock and two orders of 3 units each, of two  *)
(* concurrent payments exactly one succeeds and the other answers 400,    *)
(* and the derived stock is never negative.                               *)
C6_ExactlyOnePaymentWins ==
  TotalStock(stocks, "P") = 5 =>
    /\ StockLeft(stocks, orders, carts, "P") >= 0
    /\ (\A r \in Slots : reqs[r].pc = "done") =>
         \E r \in Slots :
           /\ reqs[r].code = 200
           /\ \A q \in Slots \ {r} : reqs[q].code = 400

(* C7: the order that addItem creates is the one a confirmation by the    *)
(* same user finds: confirm answers 200 and moves that order on when the  *)
(* user has an open order with a line item.                               *)
C7_ConfirmFindsCart ==
  [][\A u \in Users :
       ( /\ Confirm(u)
         /\ \E o \in OpenOrders(orders, u) : CartsOf(carts, o) # {} )
       => /\ resp' = Response("confirm", 200)
          /\ \E o \in OpenOrders(orders, u) : orders'[o].status # orders[o].status
    ]_vars

(* C8: a payment call on an order that is not in status "1" answers 404   *)
(* and changes no order, line item or ledger entry; a payment that        *)
(* succeeds takes the order from "1" to "2", so it cannot be repeated.    *)
C8_PayOnlyConfirmed ==
  [][\A u \in Users, o \in OrderIds :
       Pay(u, o) =>
         /\ (o \in DOMAIN orders /\ orders[o].status # "1") =>
              /\ resp' = Response("pay", 404)
              /\ UNCHANGED <<orders, carts, stocks>>
         /\ resp' = Response("pay", 200) =>
              /\ orders[o].status = "1"
              /\ orders'[o].status = "2"
    ]_vars

(* a payment was refused while an order is already paid and none is confirmed *)
C8_Witness ==
  /\ resp = Response("pay", 404)
  /\ \E o \in DOMAIN orders : orders[o].status = "2"
  /\ \A o \in DOMAIN orders : orders[o].status # "1"

(* C9: the status of an order never moves to an earlier code of           *)
(* "0" < "1" < "2" < "3" < "4"; the only other change is to "5".          *)
StatusRank(s) ==
  CASE s = "0" -> 0 [] s = "1" -> 1 [] s = "2" -> 2 [] s = "3" -> 3 [] s = "4" -> 4
    [] OTHER -> 5

C9_StatusMonotonic ==
  [][\A o \in (DOMAIN orders) \cap (DOMAIN orders') :
       \/ orders'[o].status = orders[o].status
       \/ orders'[o].status = "5"
       \/ StatusRank(orders'[o].status) > StatusRank(orders[o].status)
    ]_vars

(* C10: after updateQty with newQty >= 1 on an existing line item the     *)
(* item has quantity newQty and line total newQty x unit price, and the   *)
(* parent order's total is again the sum of its line totals.              *)
C10_UpdateQtyAdjustsTotals ==
  [][\A c \in DOMAIN carts, q \in QtyInputs :
       (UpdateQty(c, q) /\ q >= 1) =>
         /\ carts'[c].qty = q
         /\ carts'[c].cart_price = q * price[carts[c].product_id]
         /\ carts[c].order_id \in DOMAIN orders =>
              orders'[carts[c].order_id].order_amount = LineTotal(carts', carts[c].order_id)
    ]_vars

(* C11: an addItem with a quantity below 1 is refused with a 4xx answer   *)
(* and changes no order and no line item; in particular it lowers neither *)
(* the quantity of an existing line item nor the total of its order.      *)
C11_AddItemRejectsBadQty ==
  [][\A u \in CartUsers, p \in Products, q \in QtyInputs :
       (AddItem(u, p, q) /\ q < 1) =>
         /\ resp'.code \in {400, 404}
         /\ orders' = orders
         /\ carts' = carts
    ]_vars


(* C12: the stock-left view of a product of the vendor answers the sum of *)
(* the product's ledger quantities minus the quantities of its line items *)
(* whose order is paid or later, unclamped; it answers 404 when the       *)
(* product is not one of the vendor's.                                    *)
RECURSIVE C12_Sum(_, _)
C12_Sum(f, n) == IF n = 0 THEN 0 ELSE f[n] + C12_Sum(f, n - 1)

C12_Ledger(p) ==
  C12_Sum([k \in 1..(nextStock - 1) |->
             IF stocks[k].product_id = p THEN stocks[k].stock_quantity ELSE 0],
          nextStock - 1)

C12_Sold(p) ==
  C12_Sum([c \in 1..(nextCart - 1) |->
             IF /\ c \in DOMAIN carts
                /\ carts[c].product_id = p
                /\ carts[c].order_id \in DOMAIN orders
                /\ StatusRank(orders[carts[c].order_id].status) >= 2
             THEN carts[c].qty ELSE 0],
          nextCart - 1)

C12_WitnessNotFound ==
  /\ resp = Response("stockLeft", 404)
  /\ \E o \in DOMAIN orders : orders[o].status = "2"


(* C13: filing a complaint, on either route, is refused exactly when a    *)
(* required field is missing, the content has fewer than 20 characters or *)
(* the title more than 100; the refusal names every failing field and     *)
(* creates nothing; otherwise one complaint is created in status pending. *)
C13_Failing(user_id, cart_id, title, content) ==
  (IF user_id = Null THEN {"user_id"} ELSE {})
  \cup (IF cart_id = NoCart THEN {"cart_id"} ELSE {})
  \cup (IF title = NoString \/ title.len = 0 \/ title.len > 100 THEN {"title"} ELSE {})
  \cup (IF content = NoString \/ content.len < 20 THEN {"content"} ELSE {})

C13_FileComplaint ==
  [][\A u \in ComplaintUserInputs, c \in ComplaintCartInputs,
        title \in TitleInputs, content \in ContentInputs :
       (UserComplaint(u, c, title, content) \/ PostComplaints(title, content, c, u)) =>
         IF C13_Failing(u, c, title, content) = {}
         THEN /\ resp'.code = 201
              /\ Len(complaints') = Len(complaints) + 1
              /\ complaints'[Len(complaints')].status = "pending"
         ELSE /\ resp'.code = 400
              /\ resp'.body.errors = C13_Failing(u, c, title, content)
              /\ complaints' = complaints
    ]_vars

(* C14: a reply is applied only with a non-empty reply text and a new     *)
(* status of resolved or rejected on an existing complaint; every other   *)
(* call is refused and changes no complaint, so a status is always one of *)
(* pending, resolved, rejected and never goes back to pending.            *)
C14_ResolveComplaint ==
  [][\A id \in ComplaintIds, reply \in ReplyInputs, status \in ReplyStatusInputs :
       ComplaintReply(id, reply, status) =>
         IF status \in {"resolved", "rejected"} /\ reply # "" /\ id \in DOMAIN complaints
         THEN /\ resp'.code = 200
              /\ complaints'[id].status = status
         ELSE /\ resp'.code \in {400, 404}
              /\ complaints' = complaints
    ]_vars


(* C15: the vendor revenue report for a window lists exactly the vendors  *)
(* with a line item whose order is dated in the window and is paid or     *)
(* later, each with the sum of the line totals of those items, in         *)
(* descending order of the sum.                                           *)
C15_Sold(v, from, to) ==
  {c \in DOMAIN carts : /\ carts[c].order_id \in DOMAIN orders
                        /\ carts[c].order_id >= from
                        /\ carts[c].order_id <= to
                        /\ StatusRank(orders[carts[c].order_id].status) >= 2
                        /\ vendor_id[carts[c].product_id] = v}

C15_VendorRevenue ==
  [][\A from \in OrderIds, to \in OrderIds :
       VendorsReport(from, to) =>
         LET body == resp'.body
         IN  /\ {body[i].vendorId : i \in DOMAIN body} =
                  {v \in Vendors : C15_Sold(v, from, to) # {}}
             /\ \A i \in DOMAIN body :
                  body[i].totalEarnings =
                    SumOver(carts, C15_Sold(body[i].vendorId, from, to), "cart_price")
             /\ \A i, j \in DOMAIN body :
                  i < j => body[i].totalEarnings >= body[j].totalEarnings
    ]_vars

(* C16: the report is a function of the data and the window: vendors come *)
(* in descending order of revenue and, with equal revenue, in ascending   *)
(* order of the vendor id.                                                *)
C16_VendorRank(v) == IF v = "v1" THEN 1 ELSE 2

C16_ReportDeterministic ==
  [][\A from \in OrderIds, to \in OrderIds :
       VendorsReport(from, to) =>
         \A i, j \in DOMAIN resp'.body :
           i < j =>
             \/ resp'.body[i].totalEarnings > resp'.body[j].totalEarnings
             \/ /\ resp'.body[i].totalEarnings = resp'.body[j].totalEarnings
                /\ C16_VendorRank(resp'.body[i].vendorId)
                     < C16_VendorRank(resp'.body[j].vendorId)
    ]_vars


(* C18: haversineDistance is 0 for two equal points and has the same      *)
(* value when its two points are exchanged.                               *)
C18_HaversineZeroSymmetric ==
  resp.op = "haversineDistance" =>
    /\ (reqs.lat1 = reqs.lat2 /\ reqs.lon1 = reqs.lon2) => resp.body = 0
    /\ resp.body = haversineDistance(reqs.lat2, reqs.lon2, reqs.lat1, reqs.lon1)

(* a distance between two points of different latitude and longitude *)
C18_Witness ==
  /\ resp.op = "haversineDistance"
  /\ reqs.lat1 = 0 /\ reqs.lat2 = 60
  /\ reqs.lon1 # reqs.lon2
  /\ resp.body > 0


(* C17: every product in the answer of the nearby-products query and of   *)
(* the search has a vendor with coordinates and carries a distance.       *)
C17_NoProductWithoutLocation ==
  [][\A q \in QueryInputs, lat \in GeoQueryInputs, lon \in GeoQueryInputs :
       ((NearbyProducts(lat, lon) \/ Search(q, lat, lon)) /\ resp'.code = 200) =>
         \A i \in DOMAIN resp'.body :
           /\ ~NoLocation(vendors, resp'.body[i].product_id)
           /\ IsNum(resp'.body[i].distance)
    ]_vars


(* C19: when two concurrent addItem calls of a user both look for the     *)
(* open order before either has saved one, each saves its own: after both *)
(* have completed the user has two orders in the open-cart status.        *)
C19_DuplicateOpenOrders ==
  (\A r \in Slots : reqs[r].pc = "done" /\ reqs[r].created) =>
    Cardinality(OpenOrders(orders, "u1")) = 2

C19_Witness ==
  /\ \A r \in Slots : reqs[r].pc = "done" /\ reqs[r].created /\ reqs[r].code = 201
  /\ Cardinality(OpenOrders(orders, "u1")) = 2
  /\ Cardinality(DOMAIN carts) = 2

(* C20: when two concurrent addItem calls of a user for different         *)
(* products, both finding the user's open order, have completed, the      *)
(* order's total is the sum of the line totals of its line items.         *)
C20_NoLostIncrement ==
  ( /\ \A r \in Slots : reqs[r].pc = "done" /\ ~reqs[r].created
    /\ reqs[1].product_id # reqs[2].product_id )
  => \A o \in OpenOrders(orders, "u1") : orders[o].order_amount = LineTotal(carts, o)


(* C21: an order has at most one line item per product; an addItem for a  *)
(* product that the open order already holds adds qty to that item's      *)
(* quantity, price x qty to its line total and to the order's total, and  *)
(* creates no line item.                                                  *)
C21_OneItemPerProduct(cs) ==
  \A c, d \in DOMAIN cs :
    (cs[c].order_id = cs[d].order_id /\ cs[c].product_id = cs[d].product_id) => c = d

C21_AddItemMergesLineItem ==
  [][/\ C21_OneItemPerProduct(carts')
     /\ \A u \in CartUsers, p \in Products, q \in LifecycleQtyInputs :
          \A o \in OpenOrders(orders, u) :
            \A c \in ExistingCartItems(carts, u, p, o) :
              AddItem(u, p, q) =>
                /\ DOMAIN carts' = DOMAIN carts
                /\ carts'[c].qty = carts[c].qty + q
                /\ carts'[c].cart_price = carts[c].cart_price + price[p] * q
                /\ orders'[o].order_amount = orders[o].order_amount + price[p] * q
                /\ resp' = Response("addItem", 200)
    ]_vars

(* P was added twice to the open order 1: one line item with quantity 2 *)
C21_Witness ==
  /\ resp = Response("addItem", 200)
  /\ \E c \in DOMAIN carts :
       /\ carts[c].product_id = "P"
       /\ carts[c].qty = 2
       /\ carts[c].cart_price = 200
       /\ carts[c].order_id \in DOMAIN orders
       /\ orders[carts[c].order_id].status = "1"
       /\ CartsOf(carts, carts[c].order_id) = {c}


(* C22: a status-changing call on an order id that does not exist, or on  *)
(* an order that is delivered ("4") or cancelled ("5"), is refused with a *)
(* 4xx answer and leaves the order's status as it was.                    *)
C22_StatusCall(u, o, s, d) ==
  \/ OrdersUpdate(o, s)
  \/ OrdersAccept(o, s)
  \/ DeliveryAccept(o, s, d)
  \/ Pay(u, o)

C22_TerminalOrderRefused ==
  [][\A u \in Users, o \in OrderIds, s \in OrderStatus,
        d \in DeliveryPersons \cup {NoDeliveryPerson} :
       ( /\ C22_StatusCall(u, o, s, d)
         /\ resp'.op \in {"ordersUpdate", "ordersAccept", "deliveryAccept", "pay"}
         /\ o \in DOMAIN orders => orders[o].status \in {"4", "5"} )
       => /\ resp'.code \in {400, 404, 409}
          /\ o \in DOMAIN orders => orders'[o].status = orders[o].status
    ]_vars

(* C23: an order in a status before shipped ("0", "1" or "2") has no      *)
(* delivery agent.                                                        *)
C23_NoAgentBeforeShipped ==
  \A o \in DOMAIN orders :
    orders[o].status \in {"0", "1", "2"} => orders[o].delivery_boy_id = Null


(* C24: every ledger entry, once created, stays as it was created: no     *)
(* step changes or removes an entry.                                      *)
C24_LedgerAppendOnly ==
  [][\A k \in DOMAIN stocks : k \in DOMAIN stocks' /\ stocks'[k] = stocks[k]]_vars


(* C26: the top-product query answers the product group with the highest  *)
(* total quantity and, among groups of equal quantity, the one with the   *)
(* highest revenue; the top-vendor query does the same over vendors.      *)
C26_VendorQty(v) ==
  SumOver(carts, {c \in DOMAIN carts : /\ carts[c].order_id \in DOMAIN orders
                                       /\ vendor_id[carts[c].product_id] = v}, "qty")

C26_Better(q1, r1, q2, r2) == q1 > q2 \/ (q1 = q2 /\ r1 > r2)

C26_TopByQuantityThenRevenue ==
  [][/\ \A from \in OrderIds, to \in OrderIds :
          (TopProduct(from, to) /\ resp'.body # << >>) =>
            \A g \in TopProductGroups(orders, carts, vendors, from, to) :
              ~C26_Better(g.totalQty, g.totalRevenue,
                          resp'.body[1].totalQty, resp'.body[1].totalRevenue)
     /\ \A v \in YearInputs :
          (TopVendor(v) /\ resp'.code = 200) =>
            \A g \in TopVendorGroups(orders, carts, CurrentYear) :
              ~C26_Better(C26_VendorQty(g.vendorId), g.totalRevenue,
                          C26_VendorQty(resp'.body.vendor), resp'.body.totalRevenue)
    ]_vars


(* C25: a step of a report, of a history or stock-left view, or of a      *)
(* complaint operation leaves every order and every cart line item as it  *)
(* was.                                                                   *)
C25_ReaderOps ==
  {"stockLeft", "vendorsReport", "topProduct", "topVendor", "userOrderProducts",
   "userComplaint", "complaints", "complaintReply"}

C25_ReadersLeaveOrdersAndCarts ==
  [][resp'.op \in C25_ReaderOps => (orders' = orders /\ carts' = carts)]_vars

(* a complaint about a line item of a paid order was resolved *)
C25_Witness ==
  /\ resp = Response("complaintReply", 200)
  /\ \E k \in DOMAIN complaints :
       /\ complaints[k].status = "resolved"
       /\ complaints[k].cart_id \in DOMAIN carts
       /\ orders[carts[complaints[k].cart_id].order_id].status = "2"


(* C27: every order in the open-cart status has at least one cart line    *)
(* item that references it.                                               *)
C27_NoEmptyOpenOrder ==
  \A o \in DOMAIN orders : orders[o].status = "1" => CartsOf(carts, o) # {}

(* C29: addItem, updateQty and removeItem change neither the total nor    *)
(* the line items of an order that is paid or later, and do not delete    *)
(* the order.                                                             *)
C29_PaidOrderUntouched ==
  [][resp'.op \in {"addItem", "updateQty", "removeItem"} =>
       \A o \in DOMAIN orders :
         StatusRank(orders[o].status) >= 2 =>
           /\ o \in DOMAIN orders'
           /\ orders'[o].order_amount = orders[o].order_amount
           /\ CartsOf(carts', o) = CartsOf(carts, o)
           /\ \A c \in CartsOf(carts, o) : carts'[c] = carts[c]
    ]_vars

(* C30: every cart line item of an order is of a product of the order's   *)
(* vendor.                                                                *)
C30_ItemsOfOrderVendor ==
  \A c \in DOMAIN carts :
    carts[c].order_id \in DOMAIN orders =>
      vendor_id[carts[c].product_id] = orders[carts[c].order_id].vendor_id


(* C28: every cart line item references an order that exists, also when a *)
(* removeItem that empties the order runs concurrently with an addItem of *)
(* the same user.                                                         *)
C28_NoDanglingLineItem ==
  \A c \in DOMAIN carts : carts[c].order_id \in DOMAIN orders

====
